---- MODULE Spec2Model ----
(***************************************************************************)
(* A model of TabAlign.py: the LineObj position tracker, the delimiter     *)
(* mode (align_by_selected_str) and the multi-cursor mode                  *)
(* (align_by_cursors) of the TabAlign text command.                        *)
(*                                                                         *)
(* Text is a sequence of one-character strings; offsets are 0-based as in  *)
(* the source, so the character at offset p of text t is t[p+1].           *)
(***************************************************************************)
EXTENDS Integers, Sequences, FiniteSets, TLC

VARIABLES
    buffer,          \* the view's text
    buffer0,         \* the view's text when the command started (history)
    sel,             \* self.view.sel(): sequence of regions [a, b]
    alignfirst,      \* my_run's alignfirst argument
    tabsize,         \* the view's tab_size setting
    pc,              \* where the running command is
    ticked,          \* timer.has_ticked() answers True from now on
    status,          \* messages sent to window().status_message
    edits,           \* view.replace / view.insert calls issued so far
    alignstr,        \* align_by_selected_str: the delimiter
    lines,           \* align_by_selected_str: the batch of LineObj
    line_start,      \* align_by_selected_str: offset of the next candidate line
    waiting_cursors, \* align_by_cursors: cursors not aligned yet
    passes,          \* completed iterations of the running alignment loop (history)
    marks,           \* per batch line, per pass: where that pass's alignment point is now, -1 if none (history)
    exhausted,       \* per batch line: find_next has returned -1 for it (history)
    aligned_in,      \* per input cursor: the passes that aligned it (history)
    call             \* the last LineObj method called on its own: arguments and result (history)

vars == <<buffer, buffer0, sel, alignfirst, tabsize, pc, ticked, status, edits,
          alignstr, lines, line_start, waiting_cursors, passes, marks, exhausted,
          aligned_in, call>>

-----------------------------------------------------------------------------
(* Bounds of the model *)

MaxLen == 5
MaxCursorLen == 3
MaxCursors == 3
MaxPasses == MaxLen + 12
MaxLineLen == 4
MaxDelimLen == 2
MaxValLen == 2

SP == " "
NL == "\n"
TAB == "\t"

-----------------------------------------------------------------------------
(* Generic helpers *)

MinOf(S) == CHOOSE x \in S : \A y \in S : x <= y
MaxOf(S) == CHOOSE x \in S : \A y \in S : y <= x

\* the string " " * n
Spaces(n) == [k \in 1..n |-> SP]

\* Python's t[a:b] for 0 <= a <= b <= len(t)
Slice(t, a, b) == SubSeq(t, a + 1, b)

\* Python's str.find(d, start): lowest offset >= start where d occurs, else -1
Find(t, d, start) ==
    LET cands == {p \in start..(Len(t) - Len(d)) : SubSeq(t, p + 1, p + Len(d)) = d}
    IN  IF cands = {} THEN -1 ELSE MinOf(cands)

\* Python's "d in t"
Contains(t, d) == Find(t, d, 0) # -1

\* Python's sep.join(ts) for sep = "\n"
RECURSIVE JoinLines(_)
JoinLines(ts) ==
    IF ts = <<>> THEN <<>>
    ELSE IF Len(ts) = 1 THEN ts[1]
    ELSE ts[1] \o <<NL>> \o JoinLines(Tail(ts))

-----------------------------------------------------------------------------
(* The host view, as the source uses it *)

\* view.line(pt).begin()
LineBegin(b, pt) ==
    MaxOf({0} \cup {p \in 1..pt : p <= Len(b) /\ b[p] = NL})

\* view.line(pt).end()
LineEnd(b, pt) ==
    MinOf({Len(b)} \cup {q \in pt..(Len(b) - 1) : b[q + 1] = NL})

\* view.substr(sublime.Region(a, e)): the region is clipped to the buffer
Substr(b, a, e) ==
    LET hi == IF e > Len(b) THEN Len(b) ELSE e
    IN  IF a >= hi THEN <<>> ELSE Slice(b, a, hi)

\* view.insert(edit, loc, s)
ViewInsert(b, loc, s) == Slice(b, 0, loc) \o s \o Slice(b, loc, Len(b))

\* view.replace(edit, sublime.Region(a, e), s)
ViewReplace(b, a, e, s) == Slice(b, 0, a) \o s \o Slice(b, e, Len(b))

-----------------------------------------------------------------------------
(* class LineObj *)

LineObj(begin, end, text) ==
    [begin |-> begin, end |-> end, text |-> text, search_start |-> 0, last_find |-> 0]

\* the "while" of find_next: step over back-to-back occurrences (asl > 0)
RECURSIVE RunEnd(_, _, _)
RunEnd(t, d, pos) ==
    IF pos < Len(t) /\ Find(t, d, pos + Len(d)) = pos + Len(d)
    THEN RunEnd(t, d, pos + Len(d))
    ELSE pos

\* find_next never returns: the "while" makes no progress when asl = 0
FindNextHangs(line, d, af) ==
    LET pos == Find(line.text, d, line.search_start)
    IN  /\ ~(pos = -1 \/ pos >= Len(line.text))
        /\ ~af
        /\ Len(d) = 0

\* find_next: the LineObj afterwards and the value returned
FindNext(line, d, af) ==
    LET pos == Find(line.text, d, line.search_start)
    IN  IF pos = -1 \/ pos >= Len(line.text)
        THEN [line |-> [line EXCEPT !.search_start = Len(line.text)], ret |-> -1]
        ELSE IF af
        THEN [line |-> [line EXCEPT !.search_start = pos + Len(d), !.last_find = pos],
              ret  |-> pos]
        ELSE LET last == RunEnd(line.text, d, pos)
             IN  [line |-> [line EXCEPT !.search_start = last + Len(d), !.last_find = last],
                  ret  |-> last]

\* insert that leaves search_start where it was
InsertKeepsSearchStart(line, p, val) ==
    LET pos == IF p < 0 THEN 0 ELSE IF p > Len(line.text) THEN Len(line.text) ELSE p
    IN  [line EXCEPT
            !.last_find    = IF pos <= line.last_find THEN @ + Len(val) ELSE @,
            !.text         = Slice(@, 0, pos) \o val \o Slice(@, pos, Len(@))]

\* insert that shifts a cursor only when pos is strictly before it
InsertStrictShift(line, p, val) ==
    LET pos == IF p < 0 THEN 0 ELSE IF p > Len(line.text) THEN Len(line.text) ELSE p
    IN  [line EXCEPT
            !.search_start = IF pos < line.search_start THEN @ + Len(val) ELSE @,
            !.last_find    = IF pos < line.last_find THEN @ + Len(val) ELSE @,
            !.text         = Slice(@, 0, pos) \o val \o Slice(@, pos, Len(@))]

\* insert
Insert(line, p, val) ==
    LET pos == IF p < 0 THEN 0 ELSE IF p > Len(line.text) THEN Len(line.text) ELSE p
    IN  [line EXCEPT
            !.search_start = IF pos <= line.search_start THEN @ + Len(val) ELSE @,
            !.last_find    = IF pos <= line.last_find THEN @ + Len(val) ELSE @,
            !.text         = Slice(@, 0, pos) \o val \o Slice(@, pos, Len(@))]

-----------------------------------------------------------------------------
(* class TabAlign: delimiter mode *)

NoLine == [begin |-> -1, end |-> -1, text |-> <<>>, search_start |-> 0, last_find |-> 0]

\* get_line
GetLine(b, loc) ==
    IF Len(b) <= loc THEN NoLine
    ELSE LineObj(LineBegin(b, loc), LineEnd(b, loc),
                 Substr(b, LineBegin(b, loc), LineEnd(b, loc)))

\* "alignstr in line.text" for the line get_line(loc) returns, if any
InBatch(b, loc, d) ==
    /\ GetLine(b, loc) # NoLine
    /\ Contains(GetLine(b, loc).text, d)

\* the whole "while line != None and alignstr in line.text" loop, timer aside
RECURSIVE CollectFrom(_, _, _)
CollectFrom(b, loc, d) ==
    IF InBatch(b, loc, d)
    THEN <<GetLine(b, loc)>> \o CollectFrom(b, GetLine(b, loc).end + 1, d)
    ELSE <<>>

\* SpansLines with the line of cursor.end() compared to itself
SpansLinesSameEnd(b, cursor) == LineBegin(b, cursor.b) # LineBegin(b, cursor.b)

\* "self.view.line(cursor.end()).begin() != cursorline.begin()"
SpansLines(b, cursor) == LineBegin(b, cursor.b) # LineBegin(b, cursor.a)

\* the delimiter: the selected text, or the character after a zero-width cursor
AlignStr(b, cursor) ==
    IF cursor.b - cursor.a > 0
    THEN Substr(b, cursor.a, cursor.b)
    ELSE Substr(b, cursor.a, cursor.a + 1)

\* the spaces one pass inserts into a line after its find_next, for the pass's maxpos
Padding(line, maxpos) ==
    IF line.last_find < 0 THEN 0
    ELSE IF line.last_find < maxpos THEN maxpos - line.last_find
    ELSE 0

\* AlignLine inserting at search_start, past the match, instead of last_find
AlignLineAtSearchStart(line, maxpos) ==
    IF Padding(line, maxpos) > 0
    THEN Insert(line, line.search_start, Spaces(Padding(line, maxpos)))
    ELSE line

\* "align each line": what the pass does to one line
AlignLine(line, maxpos) ==
    IF Padding(line, maxpos) > 0
    THEN Insert(line, line.last_find, Spaces(Padding(line, maxpos)))
    ELSE line

\* one iteration of the "while True" of align_by_selected_str, timer aside
PassStep(ls, d, af) ==
    LET found  == [i \in DOMAIN ls |-> FindNext(ls[i], d, af)]
        maxpos == MaxOf({found[i].ret : i \in DOMAIN ls})
    IN  [found  |-> found,
         maxpos |-> maxpos,
         lines  |-> IF maxpos < 0
                    THEN [i \in DOMAIN ls |-> found[i].line]
                    ELSE [i \in DOMAIN ls |-> AlignLine(found[i].line, maxpos)]]

\* the whole "while True" loop, timer aside (d non-empty)
RECURSIVE AlignLoop(_, _, _)
AlignLoop(ls, d, af) ==
    LET r == PassStep(ls, d, af)
    IN  IF r.maxpos < 0 THEN r.lines ELSE AlignLoop(r.lines, d, af)

Texts(ls) == [i \in DOMAIN ls |-> ls[i].text]

ErrSpan    == "Error: selection can't span more than one line"
ErrEmpty   == "Programmer error: empty align string"
ErrCursors == "Error: you must have either a selection, a single cursor, or multiple cursors"
Timeout(n) ==
    CASE n = 105 -> "Programmer error: timeout on line 105"
      [] n = 141 -> "Programmer error: timeout on line 141"
      [] n = 197 -> "Programmer error: timeout on line 197"
      [] n = 204 -> "Programmer error: timeout on line 204"

\* my_run with one region, and align_by_selected_str up to its first loop
SelectedStrStart ==
    /\ pc = "start"
    /\ Len(sel) = 1
    /\ LET cursor == sel[1]
           cursorline == LineBegin(buffer, cursor.a)
           str == AlignStr(buffer, cursor)
       IN  IF SpansLines(buffer, cursor)
           THEN /\ status' = Append(status, ErrSpan)
                /\ pc' = "done"
                /\ UNCHANGED <<alignstr, line_start>>
           ELSE /\ alignstr' = str
                /\ status' = IF str = <<>> THEN Append(status, ErrEmpty) ELSE status
                /\ line_start' = cursorline
                /\ pc' = "collect"
    /\ UNCHANGED <<buffer, buffer0, sel, alignfirst, tabsize, ticked, edits, lines,
                   waiting_cursors, passes, marks, exhausted, aligned_in, call>>

\* one iteration of "while line != None and alignstr in line.text"
CollectLine ==
    /\ pc = "collect"
    /\ LET line == GetLine(buffer, line_start)
       IN  /\ InBatch(buffer, line_start, alignstr)
           /\ lines' = Append(lines, line)
           /\ marks' = Append(marks, <<>>)
           /\ exhausted' = Append(exhausted, FALSE)
           /\ line_start' = line.end + 1
    /\ IF ticked
       THEN /\ status' = Append(status, Timeout(197))
            /\ pc' = "done"
       ELSE UNCHANGED <<status, pc>>
    /\ UNCHANGED <<buffer, buffer0, sel, alignfirst, tabsize, ticked, edits, alignstr,
                   waiting_cursors, passes, aligned_in, call>>

\* origreg ending with the first batch line instead of the last
OrigRegFirstLine(ls) == [begin |-> ls[1].begin, end |-> ls[1].end]

\* origreg = sublime.Region(lines[0].begin, lines[-1].end)
OrigReg(ls) == [begin |-> ls[1].begin, end |-> ls[Len(ls)].end]

\* the loop's condition fails; origreg = Region(lines[0].begin, lines[-1].end)
CollectEnd ==
    /\ pc = "collect"
    /\ ~InBatch(buffer, line_start, alignstr)
    /\ pc' = IF lines = <<>> THEN "crash" ELSE "align"
    /\ UNCHANGED <<buffer, buffer0, sel, alignfirst, tabsize, ticked, status, edits,
                   alignstr, lines, line_start, waiting_cursors, passes, marks,
                   exhausted, aligned_in, call>>

\* where each pass's alignment point of line i is after the pass r
MarksAfter(ms, r, i) ==
    LET lf  == r.found[i].line.last_find
        pad == Padding(r.found[i].line, r.maxpos)
    IN  Append([k \in DOMAIN ms |-> IF ms[k] >= lf THEN ms[k] + pad ELSE ms[k]],
               IF r.found[i].ret < 0 THEN -1 ELSE r.found[i].ret + pad)

\* one iteration of "while True", and what follows the loop when it breaks
AlignPass ==
    /\ pc = "align"
    /\ ticked \/ passes < MaxPasses
    /\ IF ticked
       THEN /\ status' = Append(status, Timeout(204))
            /\ pc' = "done"
            /\ UNCHANGED <<buffer, edits, lines, passes, marks, exhausted>>
       ELSE IF \E i \in DOMAIN lines : FindNextHangs(lines[i], alignstr, alignfirst)
       THEN /\ pc' = "hang"
            /\ UNCHANGED <<buffer, status, edits, lines, passes, marks, exhausted>>
       ELSE LET r == PassStep(lines, alignstr, alignfirst)
            IN  /\ lines' = r.lines
                /\ exhausted' = [i \in DOMAIN lines |-> exhausted[i] \/ r.found[i].ret < 0]
                /\ status' = status
                /\ IF r.maxpos < 0
                   THEN /\ buffer' = ViewReplace(buffer, OrigReg(lines).begin,
                                                 OrigReg(lines).end,
                                                 JoinLines(Texts(r.lines)))
                        /\ edits' = Append(edits, [op |-> "replace",
                                                    begin |-> OrigReg(lines).begin,
                                                    end |-> OrigReg(lines).end])
                        /\ pc' = "done"
                        /\ UNCHANGED <<passes, marks>>
                   ELSE /\ passes' = passes + 1
                        /\ marks' = [i \in DOMAIN lines |-> MarksAfter(marks[i], r, i)]
                        /\ UNCHANGED <<buffer, edits, pc>>
    /\ UNCHANGED <<buffer0, sel, alignfirst, tabsize, ticked, alignstr, line_start,
                   waiting_cursors, aligned_in, call>>

-----------------------------------------------------------------------------
(* class TabAlign: multi-cursor mode *)

\* AnySelection looking at the first cursor only
AnySelectionFirstOnly(cursors) ==
    cursors # <<>> /\ cursors[1].b - cursors[1].a > 0

\* "cursor.size() > 0" for some cursor of the list
AnySelection(cursors) == \E i \in DOMAIN cursors : cursors[i].b - cursors[i].a > 0

\* get_active_cursors, "pos": col + linestr.count("\t") * (tabsize-1)
CursorPos(b, loc, ts) ==
    LET begin == LineBegin(b, loc)
        col   == loc - begin
        tabs  == Cardinality({p \in (begin + 1)..loc : b[p] = TAB})
    IN  col + tabs * (ts - 1)

\* get_active_cursors, one entry of rich_cursors
RichCursor(b, reg, ts) ==
    [reg |-> reg, loc |-> reg.a, line |-> LineBegin(b, reg.a), pos |-> CursorPos(b, reg.a, ts)]

\* sorted(..., key=loc): a stable sort
RECURSIVE SortAsc(_)
SortAsc(s) ==
    IF Len(s) <= 1 THEN s
    ELSE LET x    == s[Len(s)]
             rest == SortAsc(SubSeq(s, 1, Len(s) - 1))
             k    == Cardinality({i \in DOMAIN rest : rest[i].loc <= x.loc})
         IN  SubSeq(rest, 1, k) \o <<x>> \o SubSeq(rest, k + 1, Len(rest))

\* SortDesc without reverse=True
SortDescForgotReverse(s) == SortAsc(s)

\* sorted(..., key=loc, reverse=True): a stable sort
RECURSIVE SortDesc(_)
SortDesc(s) ==
    IF Len(s) <= 1 THEN s
    ELSE LET x    == s[Len(s)]
             rest == SortDesc(SubSeq(s, 1, Len(s) - 1))
             k    == Cardinality({i \in DOMAIN rest : rest[i].loc >= x.loc})
         IN  SubSeq(rest, 1, k) \o <<x>> \o SubSeq(rest, k + 1, Len(rest))

\* the entries of s that satisfy keep, in order
RECURSIVE Filter(_, _)
Filter(s, keep) ==
    IF s = <<>> THEN <<>>
    ELSE (IF keep[1] THEN <<s[1]>> ELSE <<>>) \o Filter(Tail(s), Tail(keep))

\* GetActiveCursors with prevline never updated: every cursor counts as first on its line
GetActiveCursorsNoGrouping(b, search_cursors, ts) ==
    LET rich  == SortAsc([i \in DOMAIN search_cursors |-> RichCursor(b, search_cursors[i], ts)])
        first == SortDesc(rich)
    IN  [active  |-> first,
         waiting |-> <<>>,
         maxpos  |-> MaxOf({first[i].pos : i \in DOMAIN first})]

\* get_active_cursors, timer aside: first_richcursors, other_cursors, maxpos
GetActiveCursors(b, search_cursors, ts) ==
    LET rich    == SortAsc([i \in DOMAIN search_cursors |-> RichCursor(b, search_cursors[i], ts)])
        isfirst == [i \in DOMAIN rich |-> i = 1 \/ rich[i].line # rich[i - 1].line]
        first   == SortDesc(Filter(rich, isfirst))
        other   == Filter(rich, [i \in DOMAIN rich |-> ~isfirst[i]])
    IN  [active  |-> first,
         waiting |-> [i \in DOMAIN other |-> other[i].reg],
         maxpos  |-> MaxOf({first[i].pos : i \in DOMAIN first})]

\* ShiftWaiting with the comparison turned round
ShiftWaitingBefore(waiting, loc, insertion_len) ==
    [i \in DOMAIN waiting |->
        IF waiting[i].a <= loc
        THEN [waiting[i] EXCEPT !.a = @ + insertion_len, !.b = waiting[i].a + insertion_len]
        ELSE waiting[i]]

\* "also increment cursor positions": the waiting cursors after one active cursor
ShiftWaiting(waiting, loc, insertion_len) ==
    [i \in DOMAIN waiting |->
        IF waiting[i].a >= loc
        THEN [waiting[i] EXCEPT !.a = @ + insertion_len, !.b = waiting[i].a + insertion_len]
        ELSE waiting[i]]

\* "tab align!": the for loop over active_cursors, from entry k on
RECURSIVE TabAlignFrom(_, _, _, _, _, _)
TabAlignFrom(active, k, maxpos, b, waiting, log) ==
    IF k > Len(active) THEN [buffer |-> b, waiting |-> waiting, edits |-> log]
    ELSE LET loc == active[k].loc
             insertion_len == maxpos - active[k].pos
         IN  TabAlignFrom(active, k + 1, maxpos,
                 IF insertion_len > 0 THEN ViewInsert(b, loc, Spaces(insertion_len)) ELSE b,
                 ShiftWaiting(waiting, loc, insertion_len),
                 IF insertion_len > 0
                 THEN Append(log, [op |-> "insert", begin |-> loc, end |-> loc + insertion_len])
                 ELSE log)

\* my_run with no or several regions, and align_by_cursors up to its loop;
\* a waiting cursor carries the index of the input cursor it stands for (history)
CursorsStart ==
    /\ pc = "start"
    /\ Len(sel) # 1
    /\ IF AnySelection(sel)
       THEN /\ status' = Append(status, ErrCursors)
            /\ pc' = "done"
            /\ UNCHANGED <<waiting_cursors, aligned_in>>
       ELSE /\ waiting_cursors' = [i \in DOMAIN sel |-> [a |-> sel[i].a, b |-> sel[i].b, id |-> i]]
            /\ aligned_in' = [i \in DOMAIN sel |-> <<>>]
            /\ pc' = "cursors"
            /\ UNCHANGED status
    /\ UNCHANGED <<buffer, buffer0, sel, alignfirst, tabsize, ticked, edits, alignstr,
                   lines, line_start, passes, marks, exhausted, call>>

\* "while len(waiting_cursors) > 0" and the timer check that opens an iteration
CursorLoopHead ==
    /\ pc = "cursors"
    /\ IF Len(waiting_cursors) = 0
       THEN /\ pc' = "done"
            /\ UNCHANGED status
       ELSE IF ticked
       THEN /\ status' = Append(status, Timeout(105))
            /\ pc' = "done"
       ELSE /\ pc' = "active"
            /\ UNCHANGED status
    /\ UNCHANGED <<buffer, buffer0, sel, alignfirst, tabsize, ticked, edits, alignstr,
                   lines, line_start, waiting_cursors, passes, marks, exhausted,
                   aligned_in, call>>

\* the rest of the iteration: get_active_cursors, then the insertions.
\* On a tick get_active_cursors returns the pair (None, None), which the caller
\* unpacks into three names: the command ends in a ValueError.
CursorPass ==
    /\ pc = "active"
    /\ IF ticked
       THEN /\ status' = Append(status, Timeout(141))
            /\ pc' = "crash"
            /\ UNCHANGED <<buffer, edits, waiting_cursors, passes, aligned_in>>
       ELSE LET got == GetActiveCursors(buffer, waiting_cursors, tabsize)
                r   == TabAlignFrom(got.active, 1, got.maxpos, buffer, got.waiting, edits)
            IN  /\ buffer' = r.buffer
                /\ edits' = r.edits
                /\ waiting_cursors' = r.waiting
                /\ passes' = passes + 1
                /\ aligned_in' = [i \in DOMAIN aligned_in |->
                       IF \E k \in DOMAIN got.active : got.active[k].reg.id = i
                       THEN Append(aligned_in[i], passes + 1)
                       ELSE aligned_in[i]]
                /\ pc' = "cursors"
                /\ UNCHANGED status
    /\ UNCHANGED <<buffer0, sel, alignfirst, tabsize, ticked, alignstr, lines,
                   line_start, marks, exhausted, call>>

\* class Timer: ten seconds have passed since my_run created the timer
Tick ==
    /\ pc \in {"collect", "align", "cursors", "active"}
    /\ ~ticked
    /\ ticked' = TRUE
    /\ UNCHANGED <<buffer, buffer0, sel, alignfirst, tabsize, pc, status, edits,
                   alignstr, lines, line_start, waiting_cursors, passes, marks,
                   exhausted, aligned_in, call>>

-----------------------------------------------------------------------------
(* Initial states *)

DelimAlphabet == {"a", "|", SP, NL}

TextsUpTo(A, n) == UNION {[1..k -> A] : k \in 0..n}

\* the tables of the comments above TabAlignLastCommand and TabAlignFirstCommand
BarTableIn ==
    <<"t", "h", "i", "s", "|", "i", "s", "|", "|", "a", "|", "t", "a", "b",
      "l", "e", "\n", "i", "t", "|", "|", "h", "a", "s", "|", "s", "o", "m",
      "e", "|", "v", "a", "l", "u", "e", "s">>

BarTableOut ==
    <<"t", "h", "i", "s", "|", "i", "s", "|", " ", " ", " ", "|", "a", " ",
      " ", " ", "|", "t", "a", "b", "l", "e", "\n", "i", "t", " ", " ", "|",
      " ", " ", "|", "h", "a", "s", "|", "s", "o", "m", "e", "|", "v", "a",
      "l", "u", "e", "s">>

SpaceTableIn ==
    <<"t", "h", "i", "s", " ", "|", " ", "i", "s", " ", " ", " ", " ", "|",
      " ", "a", " ", "|", " ", "t", "a", "b", "l", "e", "\n", "i", "t", " ",
      "|", " ", "h", "a", "s", " ", "|", " ", "s", "o", "m", "e", " ", " ",
      " ", " ", "|", " ", "v", "a", "l", "u", "e", "s">>

SpaceTableOut ==
    <<"t", "h", "i", "s", " ", "|", " ", "i", "s", " ", " ", " ", " ", "|",
      " ", "a", " ", " ", " ", " ", " ", " ", " ", "|", " ", "t", "a", "b",
      "l", "e", "\n", "i", "t", " ", " ", " ", "|", " ", "h", "a", "s", " ",
      " ", " ", "|", " ", "s", "o", "m", "e", " ", " ", " ", " ", "|", " ",
      "v", "a", "l", "u", "e", "s">>

Tables == {BarTableIn, SpaceTableIn}

Regions(b) == {[a |-> x, b |-> y] : x \in 0..Len(b), y \in 0..Len(b)}

\* no LineObj method has been called on its own
NoCall == [name |-> "none", before |-> NoLine, d |-> <<>>, af |-> FALSE, p |-> 0,
           val |-> <<>>, ret |-> 0]

InitCommon ==
    /\ buffer0 = buffer
    /\ pc = "start"
    /\ ticked = FALSE
    /\ status = <<>>
    /\ edits = <<>>
    /\ alignstr = <<>>
    /\ lines = <<>>
    /\ line_start = 0
    /\ waiting_cursors = <<>>
    /\ passes = 0
    /\ marks = <<>>
    /\ exhausted = <<>>
    /\ aligned_in = <<>>
    /\ call = NoCall

Init ==
    /\ buffer \in TextsUpTo(DelimAlphabet, MaxLen) \cup Tables
    /\ \E r \in Regions(buffer) : r.a <= r.b /\ sel = <<r>>
    /\ alignfirst \in BOOLEAN
    /\ tabsize = 4
    /\ InitCommon

CursorAlphabet == {"a", TAB, NL}

TabSizes == {2, 4}

\* the selections of a view: k regions in ascending order that do not overlap,
\* all within from..to
RECURSIVE SortedRegions(_, _, _)
SortedRegions(from, to, k) ==
    IF k = 0 THEN {<<>>}
    ELSE UNION {
             UNION {
                 {<<[a |-> x, b |-> y]>> \o rest :
                     rest \in {r \in SortedRegions(y, to, k - 1) :
                                 r = <<>> \/ r[1] # [a |-> x, b |-> y]}}
                 : y \in x..to}
             : x \in from..to}

Selections(b) ==
    UNION {SortedRegions(0, Len(b), k) : k \in {0} \cup 2..MaxCursors}

\* the zero-width cursors among them, listed in any order
Shuffled(b) ==
    UNION {{[i \in DOMAIN s |-> s[p[i]]] : p \in Permutations(DOMAIN s)} :
              s \in {t \in Selections(b) : ~AnySelection(t)}}

CursorInit ==
    /\ buffer \in TextsUpTo(CursorAlphabet, MaxCursorLen)
    /\ sel \in Selections(buffer) \cup Shuffled(buffer)
    /\ alignfirst = FALSE
    /\ tabsize \in TabSizes
    /\ InitCommon

CursorNext ==
    \/ CursorsStart
    \/ CursorLoopHead
    \/ CursorPass
    \/ Tick

CursorSpec == CursorInit /\ [][CursorNext]_vars

Next ==
    \/ SelectedStrStart
    \/ CollectLine
    \/ CollectEnd
    \/ AlignPass
    \/ Tick

Spec == Init /\ [][Next]_vars

-----------------------------------------------------------------------------
(* A LineObj on its own: created for any text, then find_next and insert
   called in any order with any arguments *)

LineAlphabet == {"|", SP}

LineInit ==
    /\ buffer \in TextsUpTo(LineAlphabet, MaxLineLen)
    /\ buffer0 = buffer
    /\ lines = <<LineObj(0, Len(buffer), buffer)>>
    /\ pc = "lineobj"
    /\ sel = <<>>
    /\ alignfirst = FALSE
    /\ tabsize = 4
    /\ ticked = FALSE
    /\ status = <<>>
    /\ edits = <<>>
    /\ alignstr = <<>>
    /\ line_start = 0
    /\ waiting_cursors = <<>>
    /\ passes = 0
    /\ marks = <<>>
    /\ exhausted = <<>>
    /\ aligned_in = <<>>
    /\ call = NoCall

\* line.find_next(d, af)
LineFindNext ==
    /\ pc = "lineobj"
    /\ \E d \in TextsUpTo(LineAlphabet, MaxDelimLen), af \in BOOLEAN :
          /\ call' = [name |-> "find_next", before |-> lines[1], d |-> d, af |-> af,
                      p |-> 0, val |-> <<>>,
                      ret |-> IF FindNextHangs(lines[1], d, af) THEN 0
                              ELSE FindNext(lines[1], d, af).ret]
          /\ IF FindNextHangs(lines[1], d, af)
             THEN /\ pc' = "hang"
                  /\ UNCHANGED lines
             ELSE /\ lines' = <<FindNext(lines[1], d, af).line>>
                  /\ UNCHANGED pc
    /\ UNCHANGED <<buffer, buffer0, sel, alignfirst, tabsize, ticked, status, edits,
                   alignstr, line_start, waiting_cursors, passes, marks, exhausted,
                   aligned_in>>

\* line.insert(p, val)
LineInsert ==
    /\ pc = "lineobj"
    /\ \E p \in -1..(Len(lines[1].text) + 1), val \in TextsUpTo(LineAlphabet, MaxValLen) :
          /\ Len(lines[1].text) + Len(val) <= MaxLineLen
          /\ lines' = <<Insert(lines[1], p, val)>>
          /\ call' = [name |-> "insert", before |-> lines[1], d |-> <<>>, af |-> FALSE,
                      p |-> p, val |-> val, ret |-> 0]
    /\ UNCHANGED <<buffer, buffer0, sel, alignfirst, tabsize, pc, ticked, status, edits,
                   alignstr, line_start, waiting_cursors, passes, marks, exhausted,
                   aligned_in>>

LineNext ==
    \/ LineFindNext
    \/ LineInsert

LineSpec == LineInit /\ [][LineNext]_vars

-----------------------------------------------------------------------------
(* Both modes: my_run takes the delimiter mode for one selection and the
   multi-cursor mode otherwise *)

AnyInit == Init \/ CursorInit

AnyNext ==
    \/ SelectedStrStart
    \/ CollectLine
    \/ CollectEnd
    \/ AlignPass
    \/ CursorsStart
    \/ CursorLoopHead
    \/ CursorPass
    \/ Tick

AnySpec == AnyInit /\ [][AnyNext]_vars

-----------------------------------------------------------------------------
(* Properties: delimiter mode *)

InStatus(m) == \E k \in DOMAIN status : status[k] = m

\* the delimiter run went through its loop and wrote its result back
DelimiterRunDone ==
    /\ Len(sel) = 1
    /\ pc = "done"
    /\ edits # <<>>
    /\ alignstr # <<>>

\* C1: when the pass loop has ended, any two batch lines that both found an
\* alignment point in pass k have those two points at the same offset of their
\* final texts.
C1_ColumnsAligned ==
    DelimiterRunDone =>
        \A i, j \in DOMAIN marks : \A k \in DOMAIN marks[i] :
            (marks[i][k] >= 0 /\ marks[j][k] >= 0) => marks[i][k] = marks[j][k]

\* C2: once find_next has returned -1 for a line in some pass, no later pass
\* changes that line's text.
C2_ExhaustedLineUntouched ==
    [][\A i \in DOMAIN lines :
          (pc = "align" /\ alignstr # <<>> /\ exhausted[i]) => lines'[i].text = lines[i].text]_vars

\* C3: alignFirst=false on the bar table with delimiter "|" and the cursor on the
\* first line produces exactly the table of the comment above TabAlignLastCommand.
C3_BarTableLast ==
    (/\ DelimiterRunDone
     /\ buffer0 = BarTableIn
     /\ LineBegin(buffer0, sel[1].a) = 0
     /\ alignstr = <<"|">>
     /\ ~alignfirst)
    => buffer = BarTableOut

\* C4: alignFirst=true on the space table with the space right after "this" as
\* delimiter produces exactly the table of the comment above TabAlignFirstCommand.
C4_SpaceTableFirst ==
    (/\ DelimiterRunDone
     /\ buffer0 = SpaceTableIn
     /\ sel[1].a = 4
     /\ sel[1].b \in {4, 5}
     /\ alignfirst)
    => buffer = SpaceTableOut

\* what a second run of the same alignment, cursor on the first batch line, makes
\* of the buffer b
SecondRun(b, begin, d, af) ==
    LET batch == CollectFrom(b, begin, d)
    IN  IF batch = <<>> THEN b
        ELSE ViewReplace(b, batch[1].begin, batch[Len(batch)].end,
                         JoinLines(Texts(AlignLoop(batch, d, af))))

\* C5: running the same delimiter alignment again on the text a run produced
\* changes nothing.
C5_SecondRunIsNoOp ==
    DelimiterRunDone =>
        SecondRun(buffer, lines[1].begin, alignstr, alignfirst) = buffer

\* C8: once the empty delimiter is reported the command goes no further: it goes
\* round neither loop (no line collected, no pass), it neither hangs nor ends in
\* an unhandled failure, and it edits nothing.
C8_EmptyDelimiterAborts ==
    InStatus(ErrEmpty) =>
        /\ pc \notin {"align", "hang", "crash"}
        /\ lines = <<>>
        /\ passes = 0
        /\ edits = <<>>
        /\ buffer = buffer0

\* the single selection holds a line break
SelectionHoldsLineBreak ==
    /\ Len(sel) = 1
    /\ \E p \in (sel[1].a + 1)..sel[1].b : buffer0[p] = NL

\* C9: a single selection that begins and ends on different lines ends the command
\* with exactly one error message, no batch and the buffer as it was.
C9_SpanningSelectionAborts ==
    (SelectionHoldsLineBreak /\ pc # "start") =>
        /\ pc = "done"
        /\ status = <<ErrSpan>>
        /\ lines = <<>>
        /\ edits = <<>>
        /\ buffer = buffer0

C9_Witness ==
    /\ SelectionHoldsLineBreak
    /\ pc = "done"
    /\ status = <<ErrSpan>>
    /\ Contains(buffer0, <<"|", NL>>)

-----------------------------------------------------------------------------
(* Properties: multi-cursor mode *)

ZeroWidthCursors ==
    /\ Len(sel) >= 2
    /\ \A i \in DOMAIN sel : sel[i].a = sel[i].b

\* the visual column of offset loc: a tab counts ts cells, any other character one
VisualColumn(b, loc, ts) ==
    LET before == (LineBegin(b, loc) + 1)..loc
    IN  Cardinality({p \in before : b[p] # TAB}) + ts * Cardinality({p \in before : b[p] = TAB})

RECURSIVE SumOver(_, _)
SumOver(S, f) ==
    IF S = {} THEN 0
    ELSE LET x == CHOOSE y \in S : TRUE IN f[x] + SumOver(S \ {x}, f)

OneCursorPerLine ==
    /\ ZeroWidthCursors
    /\ \A i, j \in DOMAIN sel :
          i # j => LineBegin(buffer0, sel[i].a) # LineBegin(buffer0, sel[j].a)

\* what cursor i's line holds from offset loc on
RestOfLine(b, loc) == Substr(b, loc, LineEnd(b, loc))

\* C6: with one zero-width cursor on each of n >= 2 distinct lines the command
\* ends after one pass, its insertions are exactly (max - c_i) spaces at each
\* cursor's offset, and the text that followed each cursor then starts at visual
\* column max.
C6_OneCursorPerLine ==
    OneCursorPerLine =>
        LET c   == [i \in DOMAIN sel |-> VisualColumn(buffer0, sel[i].a, tabsize)]
            max == MaxOf({c[i] : i \in DOMAIN sel})
            pad == [i \in DOMAIN sel |-> max - c[i]]
            now == [i \in DOMAIN sel |->
                      sel[i].a + SumOver({j \in DOMAIN sel : sel[j].a <= sel[i].a}, pad)]
        IN  /\ passes <= 1
            /\ (pc = "done" /\ status = <<>>) =>
                  /\ passes = 1
                  /\ Len(edits) = Cardinality({i \in DOMAIN sel : pad[i] > 0})
                  /\ \A i \in DOMAIN sel : pad[i] > 0 =>
                        \E k \in DOMAIN edits :
                            edits[k] = [op |-> "insert", begin |-> sel[i].a,
                                        end |-> sel[i].a + pad[i]]
                  /\ Len(buffer) = Len(buffer0) + SumOver(DOMAIN sel, pad)
                  /\ \A i \in DOMAIN sel :
                        /\ VisualColumn(buffer, now[i], tabsize) = max
                        /\ RestOfLine(buffer, now[i]) = RestOfLine(buffer0, sel[i].a)
                        /\ Substr(buffer, now[i] - pad[i], now[i]) = Spaces(pad[i])

C6_Witness ==
    /\ OneCursorPerLine
    /\ pc = "done"
    /\ status = <<>>
    /\ Len(sel) = 3
    /\ Len(edits) = 2
    /\ sel[1].a > sel[2].a

\* the place of cursor i among the cursors of its line, in ascending offset
Rank(i) ==
    1 + Cardinality({j \in DOMAIN sel :
                        /\ LineBegin(buffer0, sel[j].a) = LineBegin(buffer0, sel[i].a)
                        /\ sel[j].a < sel[i].a})

\* C7: pass k aligns exactly the k-th cursor of every line that has at least k
\* cursors while the others wait, every cursor is aligned in exactly one pass, and
\* a run the timer leaves alone makes as many passes as the fullest line has cursors.
C7_PassPerRank ==
    (ZeroWidthCursors /\ pc # "start") =>
        /\ \A i \in DOMAIN sel :
              aligned_in[i] = IF Rank(i) <= passes THEN <<Rank(i)>> ELSE <<>>
        /\ {waiting_cursors[k].id : k \in DOMAIN waiting_cursors}
              = {i \in DOMAIN sel : Rank(i) > passes}
        /\ (pc = "done" /\ status = <<>>) =>
              passes = MaxOf({Rank(i) : i \in DOMAIN sel})

C7_Witness ==
    /\ ZeroWidthCursors
    /\ pc = "done"
    /\ status = <<>>
    /\ passes = 2
    /\ Len(sel) = 3
    /\ \E i, j \in DOMAIN sel : LineBegin(buffer0, sel[i].a) # LineBegin(buffer0, sel[j].a)
    /\ edits # <<>>

\* some cursor of two or more is a selection
SelectionAmongCursors ==
    /\ Len(sel) >= 2
    /\ \E i \in DOMAIN sel : sel[i].a < sel[i].b

\* C10: with two or more regions of which any one has non-zero size, the command
\* ends with the error message and without a single insertion, wherever the
\* offending region is in the list.
C10_SelectionAmongCursorsAborts ==
    (SelectionAmongCursors /\ pc # "start") =>
        /\ pc = "done"
        /\ status = <<ErrCursors>>
        /\ edits = <<>>
        /\ buffer = buffer0
        /\ passes = 0
        /\ waiting_cursors = <<>>

C10_Witness ==
    /\ SelectionAmongCursors
    /\ pc = "done"
    /\ status = <<ErrCursors>>
    /\ sel[1].a = sel[1].b
    /\ sel[Len(sel)].a < sel[Len(sel)].b
    /\ VisualColumn(buffer0, sel[1].a, tabsize) # VisualColumn(buffer0, sel[2].a, tabsize)

-----------------------------------------------------------------------------
(* Properties: LineObj *)

\* d occurs in t at offset q
OccursAt(t, d, q) ==
    /\ 0 <= q
    /\ q + Len(d) <= Len(t)
    /\ SubSeq(t, q + 1, q + Len(d)) = d

\* text[search_start:]
Suffix(line) == Slice(line.text, line.search_start, Len(line.text))

Clamp(p, n) == IF p < 0 THEN 0 ELSE IF p > n THEN n ELSE p

Delimiters == TextsUpTo(LineAlphabet, MaxDelimLen)

\* C13: every LineObj, from its creation and after any sequence of find_next
\* and insert calls, has 0 <= search_start <= len(text) and
\* -1 <= last_find < len(text).
C13_LineTrackerInvariant ==
    \A i \in DOMAIN lines :
        /\ 0 <= lines[i].search_start
        /\ lines[i].search_start <= Len(lines[i].text)
        /\ -1 <= lines[i].last_find
        /\ lines[i].last_find < Len(lines[i].text)

\* the shift rule of insert: a cursor moves by len(val) exactly when the
\* clamped position is at or before it
ShiftRule(old, new, p, val) ==
    /\ new.search_start = IF p <= old.search_start THEN old.search_start + Len(val)
                          ELSE old.search_start
    /\ new.last_find = IF p <= old.last_find THEN old.last_find + Len(val)
                       ELSE old.last_find

\* C14 as stated: for every position and value, insert leaves the suffix
\* text[search_start:] the same string, leaves last_find on the delimiter
\* occurrence it pointed to, and shifts a cursor by len(val) exactly when the
\* clamped position is at or before it.
C14_InsertKeepsCursors ==
    call.name = "insert" =>
        LET old == call.before
            new == lines[1]
            p   == Clamp(call.p, Len(old.text))
        IN  /\ Suffix(new) = Suffix(old)
            /\ \A d \in Delimiters \ {<<>>} :
                   OccursAt(old.text, d, old.last_find)
                       => OccursAt(new.text, d, new.last_find)
            /\ ShiftRule(old, new, p, call.val)

\* C14, amended: the suffix is the same string when the clamped position is
\* at or before search_start, and last_find stays on its delimiter occurrence
\* when the position is not strictly inside that occurrence; the shift rule
\* holds for every position and value.
C14_InsertKeepsCursorsBefore ==
    call.name = "insert" =>
        LET old == call.before
            new == lines[1]
            p   == Clamp(call.p, Len(old.text))
        IN  /\ p <= old.search_start => Suffix(new) = Suffix(old)
            /\ \A d \in Delimiters \ {<<>>} :
                   /\ OccursAt(old.text, d, old.last_find)
                   /\ ~(old.last_find < p /\ p < old.last_find + Len(d))
                   => OccursAt(new.text, d, new.last_find)
            /\ ShiftRule(old, new, p, call.val)

\* an insert of a non-empty value at or before last_find, which points at an
\* occurrence of the delimiter find_next was last called with
C14_Witness ==
    /\ call.name = "insert"
    /\ call.val # <<>>
    /\ call.before.search_start > call.before.last_find
    /\ Clamp(call.p, Len(call.before.text)) <= call.before.last_find
    /\ call.before.last_find > 0
    /\ OccursAt(call.before.text, <<"|">>, call.before.last_find)
    /\ OccursAt(lines[1].text, <<"|">>, lines[1].last_find)
    /\ Suffix(lines[1]) # <<>>

\* the offsets at or after search_start where d occurs
OccurrencesFrom(line, d) ==
    {q \in line.search_start..Len(line.text) : OccursAt(line.text, d, q)}

\* the last occurrence of the back-to-back run of d that starts at p
RunLast(t, d, p) ==
    p + Len(d) * MaxOf({j \in 0..Len(t) :
                          \A k \in 0..j : OccursAt(t, d, p + k * Len(d))})

\* what C15 promises of a find_next(d, af) call that took old to new and
\* returned ret
ResultPolicy(old, new, d, af, ret) ==
    /\ new.text = old.text
    /\ IF OccurrencesFrom(old, d) # {}
       THEN LET p == MinOf(OccurrencesFrom(old, d))
            IN  /\ ret = IF af THEN p ELSE RunLast(old.text, d, p)
                /\ new.last_find = ret
                /\ new.search_start = ret + Len(d)
       ELSE /\ ret = -1
            /\ new.search_start = Len(old.text)

\* C15 as stated: for any delimiter, find_next returns the first occurrence at
\* or after search_start (alignfirst) or the last occurrence of its
\* back-to-back run (otherwise) and sets last_find to it and search_start past
\* it; with no occurrence it returns -1 and sets search_start to len(text).
C15_FindNextPolicy ==
    call.name = "find_next" =>
        /\ pc # "hang"
        /\ ResultPolicy(call.before, lines[1], call.d, call.af, call.ret)

\* the same for the non-empty delimiters only (this much holds)
FindNextPolicyNonEmpty ==
    (call.name = "find_next" /\ call.d # <<>>) =>
        /\ pc # "hang"
        /\ ResultPolicy(call.before, lines[1], call.d, call.af, call.ret)

-----------------------------------------------------------------------------
(* Properties: the timer *)

TimeoutReported ==
    \E k \in DOMAIN status :
        status[k] \in {Timeout(105), Timeout(141), Timeout(197), Timeout(204)}

\* C11: no loop of either mode runs on unchecked (the command never hangs),
\* and a command that the timer stops has reported the timeout, has ended
\* without an unhandled failure, and issues no edit once the timer has ticked.
C11_GuardAbortsCleanly ==
    /\ [](pc # "hang")
    /\ [](TimeoutReported => ticked /\ pc = "done")
    /\ [][ticked => edits' = edits /\ buffer' = buffer]_vars

-----------------------------------------------------------------------------
(* Properties: the pass loop of the delimiter mode *)

\* how many more find_next(d, af) calls on line succeed (d not empty)
RECURSIVE FindsLeft(_, _, _)
FindsLeft(line, d, af) ==
    LET r == FindNext(line, d, af)
    IN  IF r.ret < 0 THEN 0 ELSE 1 + FindsLeft(r.line, d, af)

\* batch line i as get_line built it
OriginalLine(i) ==
    LineObj(lines[i].begin, lines[i].end, Substr(buffer0, lines[i].begin, lines[i].end))

\* the largest number of successful find_next calls on an original batch line
MostFinds ==
    MaxOf({FindsLeft(OriginalLine(i), alignstr, alignfirst) : i \in DOMAIN lines})

\* C12: for a non-empty batch and a non-empty delimiter the pass loop has
\* completed at most MostFinds passes and breaks in the pass after them (the
\* timer aside), because a line has exactly as many finds left as its original
\* text had, less the passes done: a find shortens text[search_start:] and no
\* insertion lengthens it.
C12_PassLoopTerminates ==
    (pc \in {"align", "done"} /\ lines # <<>> /\ alignstr # <<>>) =>
        /\ passes <= MostFinds
        /\ MostFinds < MaxPasses
        /\ (pc = "align" /\ passes = MostFinds)
              => PassStep(lines, alignstr, alignfirst).maxpos < 0
        /\ \A i \in DOMAIN lines :
              LET all == FindsLeft(OriginalLine(i), alignstr, alignfirst)
              IN  (pc = "align" \/ edits = <<>>) =>
                     FindsLeft(lines[i], alignstr, alignfirst)
                         = IF all > passes THEN all - passes ELSE 0

\* a delimiter of one space, padding inserted, and the loop left after as many
\* passes as the bound allows, more than one
C12_Witness ==
    /\ pc = "done"
    /\ edits # <<>>
    /\ alignstr = <<SP>>
    /\ buffer # buffer0
    /\ passes = MostFinds
    /\ passes >= 2

-----------------------------------------------------------------------------
(* Properties: the waiting cursors of the multi-cursor mode *)

\* the offset in buffer0 of the character that is at offset off once the
\* insertions of log are done; -1 if that character is an inserted space
RECURSIVE OriginalOffset(_, _)
OriginalOffset(off, log) ==
    IF log = <<>> \/ off < 0 THEN off
    ELSE LET e == log[Len(log)]
             front == SubSeq(log, 1, Len(log) - 1)
         IN  IF off >= e.end THEN OriginalOffset(off - (e.end - e.begin), front)
             ELSE IF off >= e.begin THEN -1
             ELSE OriginalOffset(off, front)

\* where insertion k landed, as an offset of buffer0
LandedAt(k) == OriginalOffset(edits[k].begin, SubSeq(edits, 1, k - 1))

\* the spaces inserted so far at or before the character at offset o of buffer0
InsertedAtOrBefore(o) ==
    SumOver({k \in DOMAIN edits : LandedAt(k) <= o},
            [k \in DOMAIN edits |-> edits[k].end - edits[k].begin])

\* the pass that made insertion k: the one that aligned the cursor it landed at
PassOf(k) ==
    LET i == CHOOSE j \in DOMAIN sel : sel[j].a = LandedAt(k)
    IN  aligned_in[i][1]

\* C16: after every pass each waiting cursor is at its original offset plus
\* the spaces inserted so far at or before it, on the character it started
\* on; every insertion lands at the character of an input cursor, and the
\* insertions of one pass are made in descending offset order.
C16_WaitingCursorsTracked ==
    (Len(sel) # 1 /\ pc \in {"cursors", "active", "done", "crash"}) =>
        /\ \A w \in DOMAIN waiting_cursors :
              LET c == waiting_cursors[w]
              IN  /\ c.a = sel[c.id].a + InsertedAtOrBefore(sel[c.id].a)
                  /\ c.b = c.a
                  /\ c.a <= Len(buffer)
                  /\ OriginalOffset(c.a, edits) = sel[c.id].a
                  /\ Substr(buffer, c.a, c.a + 1) = Substr(buffer0, sel[c.id].a, sel[c.id].a + 1)
        /\ \A k \in DOMAIN edits :
              /\ edits[k].op = "insert"
              /\ \E i \in DOMAIN sel : sel[i].a = LandedAt(k) /\ aligned_in[i] # <<>>
        /\ \A k, m \in DOMAIN edits :
              (k < m /\ PassOf(k) = PassOf(m)) => edits[k].begin > edits[m].begin

\* a pass has moved a cursor that still waits
C16_Witness ==
    /\ pc = "cursors"
    /\ passes = 1
    /\ edits # <<>>
    /\ \E w \in DOMAIN waiting_cursors :
          waiting_cursors[w].a > sel[waiting_cursors[w].id].a

-----------------------------------------------------------------------------
(* Properties: the one replace of the delimiter mode *)

\* the region from the start of the cursor's line to the end of the last of
\* the consecutive lines of buffer0, from the cursor's line on, that contain
\* the delimiter
BatchRegion ==
    LET begin  == LineBegin(buffer0, sel[1].a)
        starts == {begin} \cup {p + 1 : p \in {q \in begin..(Len(buffer0) - 1) :
                                                  buffer0[q + 1] = NL}}
        has(s) == /\ s < Len(buffer0)
                  /\ Contains(Substr(buffer0, s, LineEnd(buffer0, s)), alignstr)
        last   == CHOOSE s \in starts :
                      /\ \A t \in starts : t <= s => has(t)
                      /\ ~has(LineEnd(buffer0, s) + 1)
    IN  [begin |-> begin, end |-> LineEnd(buffer0, last)]

\* C17: a delimiter-mode run issues at most one edit, a replace of the batch
\* region, and only once every line has reported not-found; the text outside
\* the region stays as it was, and a run that the timer stops, or that has not
\* replaced yet, leaves the buffer as it was.
C17_SingleBatchedReplace ==
    Len(sel) = 1 =>
        /\ Len(edits) <= 1
        /\ edits = <<>> => buffer = buffer0
        /\ TimeoutReported => edits = <<>>
        /\ edits # <<>> =>
              /\ pc = "done"
              /\ edits[1] = [op |-> "replace", begin |-> BatchRegion.begin,
                             end |-> BatchRegion.end]
              /\ \A i \in DOMAIN lines :
                    exhausted[i] /\ lines[i].search_start = Len(lines[i].text)
              /\ Slice(buffer, 0, BatchRegion.begin) = Slice(buffer0, 0, BatchRegion.begin)
              /\ Slice(buffer, Len(buffer) - (Len(buffer0) - BatchRegion.end), Len(buffer))
                    = Slice(buffer0, BatchRegion.end, Len(buffer0))
              /\ Slice(buffer, BatchRegion.begin,
                       Len(buffer) - (Len(buffer0) - BatchRegion.end))
                    = JoinLines(Texts(lines))

\* a replace of a batch of two lines or more that changed the buffer, below a
\* line that is not part of the batch
C17_Witness ==
    /\ pc = "done"
    /\ Len(edits) = 1
    /\ Len(lines) >= 2
    /\ buffer # buffer0
    /\ edits[1].begin > 0

-----------------------------------------------------------------------------
(* Properties: the batch of the delimiter mode *)

\* C19: for a selection within one line or a zero-width cursor, with a
\* delimiter that is not empty, the collection loop ends with the cursor's
\* line first in the batch, so that lines[0] and lines[-1] exist when origreg
\* is computed (the command does not end in an IndexError).
C19_BatchNeverEmpty ==
    (Len(sel) = 1 /\ alignstr # <<>>) =>
        /\ pc # "crash"
        /\ pc \in {"align", "hang"} =>
              /\ lines # <<>>
              /\ lines[1].begin = LineBegin(buffer0, sel[1].a)

-----------------------------------------------------------------------------
(* Properties: what an alignment may change *)

\* deleting some spaces of n from offset j on gives o from offset i on
RECURSIVE DeletingSpacesGives(_, _, _, _)
DeletingSpacesGives(o, n, i, j) ==
    IF j >= Len(n) THEN i >= Len(o)
    ELSE IF i < Len(o) /\ o[i + 1] = n[j + 1] THEN DeletingSpacesGives(o, n, i + 1, j + 1)
    ELSE n[j + 1] = SP /\ DeletingSpacesGives(o, n, i, j + 1)

\* the lengths of the lines of t
RECURSIVE LineLengths(_)
LineLengths(t) ==
    LET f == Find(t, <<NL>>, 0)
    IN  IF f = -1 THEN <<Len(t)>>
        ELSE <<f>> \o LineLengths(Slice(t, f + 1, Len(t)))

\* new is old with one or more spaces put in immediately before an occurrence
\* of d that is among the matched ones
PaddedBeforeMatch(old, new, d, matched) ==
    \E pos \in 0..Len(old) :
        LET n == Len(new) - Len(old)
        IN  /\ n > 0
            /\ new = Slice(old, 0, pos) \o Spaces(n) \o Slice(old, pos, Len(old))
            /\ OccursAt(new, d, pos + n)
            /\ \E k \in DOMAIN matched : matched[k] = pos + n

\* C18: in both modes, whatever the number of passes, deleting spaces from the
\* text gives back the original (buffer and batch lines alike), the number of
\* lines is the original one and no line is shorter than it was; no step
\* shortens the buffer or a batch line, and a delimiter-mode pass changes a
\* line only by putting spaces immediately before a matched delimiter
\* occurrence.
C18_OnlySpacesAdded ==
    /\ [](/\ DeletingSpacesGives(buffer0, buffer, 0, 0)
          /\ LET old == LineLengths(buffer0)
                 new == LineLengths(buffer)
             IN  Len(new) = Len(old) /\ \A k \in DOMAIN old : new[k] >= old[k]
          /\ \A i \in DOMAIN lines :
                /\ ~Contains(lines[i].text, <<NL>>)
                /\ DeletingSpacesGives(Substr(buffer0, lines[i].begin, lines[i].end),
                                       lines[i].text, 0, 0))
    /\ [][/\ Len(buffer') >= Len(buffer)
          /\ Len(lines') >= Len(lines)
          /\ \A i \in DOMAIN lines :
                /\ Len(lines'[i].text) >= Len(lines[i].text)
                /\ lines'[i].text # lines[i].text =>
                      PaddedBeforeMatch(lines[i].text, lines'[i].text, alignstr, marks'[i])
         ]_vars

\* a delimiter-mode run of two passes or more has replaced the batch with a
\* longer text
C18_Witness ==
    /\ Len(sel) = 1
    /\ pc = "done"
    /\ edits # <<>>
    /\ passes >= 2
    /\ Len(buffer) > Len(buffer0)
    /\ \E i \in DOMAIN lines : Len(lines[i].text) >= lines[i].end - lines[i].begin + 2

====
